---- MODULE Spec2Model ----
(***************************************************************************)
(* Model of src/src/mcp_server_deep_research/server.py: the                *)
(* ResearchProcessor store, the five request handlers registered in main() *)
(* and the request loop that main() starts with server.run().              *)
(*                                                                         *)
(* Text is modelled as a sequence of tokens.  The characters that the code *)
(* treats specially (newline, backslash, double quote) are tokens of their *)
(* own, so that joining, splitting, escaping and parsing are computed and  *)
(* not assumed; a fixed literal of the source is one token.                *)
(***************************************************************************)
EXTENDS Naturals, Sequences, FiniteSets

VARIABLES research_data, notes, resp, stop, hist, call, held

vars == <<research_data, notes, resp, stop, hist, call, held>>

----------------------------------------------------------------------------
(* Bounds and input sets *)

MaxCalls == 2

NL == "\n"
BS == "\\"
QT == "\""

\* The research questions a caller may send: empty, plain, multi-line, and
\* ones holding the characters JSON escapes.
Questions ==
    { <<>>, <<"a">>, <<"a", NL, "b">>, <<BS, "n">>, <<QT, "a">> }

ExtraVals == { <<"a">>, <<"b">> }

PromptNames == { "deep-research", "not-a-prompt", "Deep-Research" }

Uris == { "research://notes", "research://data", "research://other",
          "research://notes/" }

----------------------------------------------------------------------------
(* Enumerations of the source *)

DEEP_RESEARCH == "deep-research"

RESEARCH_QUESTION == "research_question"

ArgKeys == { RESEARCH_QUESTION, "extra" }

\* arguments: dict[str, str] | None
ArgDicts ==
    UNION { { f \in [K -> Questions] :
                \A k \in K : k # RESEARCH_QUESTION => f[k] \in ExtraVals }
            : K \in SUBSET ArgKeys }

NoneArgs == [none |-> TRUE, d |-> <<>>]

Arguments == { NoneArgs } \cup { [none |-> FALSE, d |-> f] : f \in ArgDicts }

----------------------------------------------------------------------------
(* Python values held in research_data *)

Str(s) == [t |-> "str", v |-> s]

EmptyList == [t |-> "list", v |-> <<>>]

EmptyDict == [t |-> "dict", v |-> <<>>]

\* ResearchProcessor.__init__: the dict literal, in insertion order
InitResearchData ==
    << [k |-> "question",          v |-> Str(<<>>)],
       [k |-> "elaboration",       v |-> Str(<<>>)],
       [k |-> "subquestions",      v |-> EmptyList],
       [k |-> "search_results",    v |-> EmptyDict],
       [k |-> "extracted_content", v |-> EmptyDict],
       [k |-> "final_report",      v |-> Str(<<>>)] >>

InitNotes == <<>>

\* d.keys()
Keys(d) == { d[i].k : i \in 1..Len(d) }

\* d[key], for a key of d
DictGet(d, key) == d[CHOOSE i \in 1..Len(d) : d[i].k = key].v

\* d[key] = value: an existing key keeps its position, a new key is appended
DictSet(d, key, value) ==
    IF key \in Keys(d)
    THEN [i \in 1..Len(d) |->
            IF d[i].k = key THEN [k |-> key, v |-> value] ELSE d[i]]
    ELSE Append(d, [k |-> key, v |-> value])

----------------------------------------------------------------------------
(* ResearchProcessor *)

NoteUpdated(key) == <<"Updated research data: ", key>>

NoteInitiated(q) == <<"Research initiated on question: ">> \o q

\* variant: notes.insert(0, note)
add_note_front(st, note) == [st EXCEPT !.notes = <<note>> \o @]

\* variant: the log keeps the latest note only
add_note_replace(st, note) == [st EXCEPT !.notes = <<note>>]

add_note(st, note) == [st EXCEPT !.notes = Append(@, note)]

\* variant: the key is set without a note
update_research_data_silent(st, key, value) ==
    [st EXCEPT !.research_data = DictSet(@, key, value)]

update_research_data(st, key, value) ==
    add_note([st EXCEPT !.research_data = DictSet(@, key, value)],
             NoteUpdated(key))

RECURSIVE JoinNL(_)
\* "\n".join(notes)
JoinNL(ns) ==
    IF Len(ns) = 0 THEN <<>>
    ELSE IF Len(ns) = 1 THEN ns[1]
    ELSE ns[1] \o <<NL>> \o JoinNL(Tail(ns))

get_research_notes(st) == JoinNL(st.notes)

get_research_data(st) == st.research_data

----------------------------------------------------------------------------
(* json.dumps(obj, indent=2) and its inverse json.loads *)

EscapeChar(c) ==
    IF c = NL THEN <<BS, "n">>
    ELSE IF c = BS THEN <<BS, BS>>
    ELSE IF c = QT THEN <<BS, QT>>
    ELSE <<c>>

RECURSIVE JsonEscape(_)
JsonEscape(s) ==
    IF Len(s) = 0 THEN <<>> ELSE EscapeChar(Head(s)) \o JsonEscape(Tail(s))

JsonString(s) == <<QT>> \o JsonEscape(s) \o <<QT>>

JsonValue(v) ==
    IF v.t = "str" THEN JsonString(v.v)
    ELSE IF v.t = "list" THEN <<"[]">>
    ELSE <<"{}">>

JsonMember(m) == <<"  ">> \o JsonString(<<m.k>>) \o <<": ">> \o JsonValue(m.v)

RECURSIVE JsonMembers(_)
JsonMembers(d) ==
    IF Len(d) = 1 THEN JsonMember(d[1])
    ELSE JsonMember(d[1]) \o <<",", NL>> \o JsonMembers(Tail(d))

\* json.dumps(d, indent=2) for a dict d
JsonDumps(d) ==
    IF Len(d) = 0 THEN <<"{}">>
    ELSE <<"{", NL>> \o JsonMembers(d) \o <<NL, "}">>

ParseFail == [ok |-> FALSE, val |-> <<>>, next |-> 0]

RECURSIVE ParseChars(_, _, _)
\* the characters of a JSON string from position i up to its closing quote
ParseChars(text, i, acc) ==
    IF i > Len(text) THEN ParseFail
    ELSE IF text[i] = QT THEN [ok |-> TRUE, val |-> acc, next |-> i + 1]
    ELSE IF text[i] = BS
    THEN IF i + 1 > Len(text) THEN ParseFail
         ELSE IF text[i + 1] = "n" THEN ParseChars(text, i + 2, Append(acc, NL))
         ELSE IF text[i + 1] \in {BS, QT}
              THEN ParseChars(text, i + 2, Append(acc, text[i + 1]))
         ELSE ParseFail
    ELSE IF text[i] = NL THEN ParseFail
    ELSE ParseChars(text, i + 1, Append(acc, text[i]))

ParseString(text, i) ==
    IF i > Len(text) \/ text[i] # QT THEN ParseFail
    ELSE ParseChars(text, i + 1, <<>>)

ParseValue(text, i) ==
    IF i > Len(text) THEN ParseFail
    ELSE IF text[i] = "[]" THEN [ok |-> TRUE, val |-> EmptyList, next |-> i + 1]
    ELSE IF text[i] = "{}" THEN [ok |-> TRUE, val |-> EmptyDict, next |-> i + 1]
    ELSE LET r == ParseString(text, i)
         IN  IF r.ok THEN [ok |-> TRUE, val |-> Str(r.val), next |-> r.next]
             ELSE ParseFail

\* one  "key": value  member starting at position i (after its indentation)
ParseMember(text, i) ==
    LET key == ParseString(text, i)
    IN  IF ~key.ok \/ Len(key.val) # 1 THEN ParseFail
        ELSE IF key.next > Len(text) \/ text[key.next] # ": " THEN ParseFail
        ELSE LET val == ParseValue(text, key.next + 1)
             IN  IF ~val.ok THEN ParseFail
                 ELSE [ok |-> TRUE, val |-> [k |-> key.val[1], v |-> val.val],
                       next |-> val.next]

RECURSIVE ParseMembers(_, _, _)
ParseMembers(text, i, acc) ==
    IF i > Len(text) \/ text[i] # "  " THEN ParseFail
    ELSE LET m == ParseMember(text, i + 1)
         IN  IF ~m.ok \/ m.next + 1 > Len(text) THEN ParseFail
             ELSE IF text[m.next] = "," /\ text[m.next + 1] = NL
             THEN ParseMembers(text, m.next + 2,
                               DictSet(acc, m.val.k, m.val.v))
             ELSE IF text[m.next] = NL /\ text[m.next + 1] = "}"
                     /\ m.next + 1 = Len(text)
             THEN [ok |-> TRUE, val |-> DictSet(acc, m.val.k, m.val.v),
                   next |-> m.next + 2]
             ELSE ParseFail

\* json.loads(text) for the text of an object; ok = FALSE is JSONDecodeError
JsonLoads(text) ==
    IF text = <<"{}">> THEN [ok |-> TRUE, val |-> <<>>, next |-> 2]
    ELSE IF Len(text) < 2 \/ text[1] # "{" \/ text[2] # NL THEN ParseFail
    ELSE ParseMembers(text, 3, <<>>)

----------------------------------------------------------------------------
(* PROMPT_TEMPLATE and str.format / str.strip *)

PLACEHOLDER == "{research_question}"

\* the template literal: a blank first line, the line holding the one
\* placeholder, a blank line, the fixed body, a final newline
PROMPT_TEMPLATE ==
    <<NL, "You are a researcher exploring: ", PLACEHOLDER, NL, NL,
      "Your task is iterative discovery ... Write what matters.", NL>>

RECURSIVE Format(_, _)
\* template.format(research_question=q)
Format(t, q) ==
    IF Len(t) = 0 THEN <<>>
    ELSE (IF Head(t) = PLACEHOLDER THEN q ELSE <<Head(t)>>) \o Format(Tail(t), q)

Whitespace == { NL, " " }

RECURSIVE LStrip(_)
LStrip(s) ==
    IF Len(s) > 0 /\ Head(s) \in Whitespace THEN LStrip(Tail(s)) ELSE s

RECURSIVE RStrip(_)
RStrip(s) ==
    IF Len(s) > 0 /\ s[Len(s)] \in Whitespace
    THEN RStrip(SubSeq(s, 1, Len(s) - 1)) ELSE s

\* s.strip()
Strip(s) == RStrip(LStrip(s))

----------------------------------------------------------------------------
(* The request handlers of main().  A handler maps the store and its       *)
(* parameters to the store it leaves and either the value it returns or    *)
(* the ValueError it raises.  No handler awaits, so each runs to its end   *)
(* without another handler in between.                                     *)

Returned(st, value) == [st |-> st, raised |-> FALSE, value |-> value]

Raised(st, message) == [st |-> st, raised |-> TRUE, value |-> message]

NotesDescriptor ==
    [uri |-> "research://notes", name |-> "Research Process Notes",
     description |-> "Notes generated during the research process",
     mimeType |-> "text/plain"]

DataDescriptor ==
    [uri |-> "research://data", name |-> "Research Data",
     description |-> "Structured data collected during the research process",
     mimeType |-> "application/json"]

\* variant: the two descriptors in the other order
handle_list_resources_swapped(st) ==
    Returned(st, <<DataDescriptor, NotesDescriptor>>)

handle_list_resources(st) == Returned(st, <<NotesDescriptor, DataDescriptor>>)

UnknownResource(uri) == <<"Unknown resource: ", uri>>

\* variant: the handler notes each read
handle_read_resource_logs(st, uri) ==
    IF uri = "research://notes"
    THEN Returned(add_note(st, <<"Read resource: ", uri>>), get_research_notes(st))
    ELSE IF uri = "research://data"
    THEN Returned(add_note(st, <<"Read resource: ", uri>>),
                  JsonDumps(get_research_data(st)))
    ELSE Raised(st, UnknownResource(uri))

\* variant: the last branch serves the data instead of raising
handle_read_resource_default(st, uri) ==
    IF uri = "research://notes" THEN Returned(st, get_research_notes(st))
    ELSE Returned(st, JsonDumps(get_research_data(st)))

\* uri is the AnyUrl the handler receives, named by its str() form
handle_read_resource(st, uri) ==
    IF uri = "research://notes" THEN Returned(st, get_research_notes(st))
    ELSE IF uri = "research://data"
    THEN Returned(st, JsonDumps(get_research_data(st)))
    ELSE Raised(st, UnknownResource(uri))

DeepResearchPrompt ==
    [name |-> DEEP_RESEARCH,
     description |-> "A prompt to conduct deep research on a question",
     arguments |-> << [name |-> RESEARCH_QUESTION,
                       description |-> "The research question to investigate",
                       required |-> TRUE] >>]

handle_list_prompts(st) == Returned(st, <<DeepResearchPrompt>>)

UnknownPrompt(name) == <<"Unknown prompt: ", name>>

MissingArgument == <<"Missing required argument: research_question">>

\* not arguments: None or the empty dict
Falsy(arguments) == arguments.none \/ DOMAIN arguments.d = {}

GetPromptResult(q, prompt) ==
    [description |-> <<"Deep research template for: ">> \o q,
     messages |-> << [role |-> "user",
                      content |-> [type |-> "text", text |-> Strip(prompt)]] >>]

\* variant: the call of update_research_data is left out
handle_get_prompt_nostore(st, name, arguments) ==
    IF name # DEEP_RESEARCH THEN Raised(st, UnknownPrompt(name))
    ELSE IF Falsy(arguments) \/ RESEARCH_QUESTION \notin DOMAIN arguments.d
    THEN Raised(st, MissingArgument)
    ELSE LET research_question == arguments.d[RESEARCH_QUESTION]
             prompt == Format(PROMPT_TEMPLATE, research_question)
             st2 == add_note(st, NoteInitiated(research_question))
         IN  Returned(st2, GetPromptResult(research_question, prompt))

\* variant: add_note is called before update_research_data
handle_get_prompt_note_first(st, name, arguments) ==
    IF name # DEEP_RESEARCH THEN Raised(st, UnknownPrompt(name))
    ELSE IF Falsy(arguments) \/ RESEARCH_QUESTION \notin DOMAIN arguments.d
    THEN Raised(st, MissingArgument)
    ELSE LET research_question == arguments.d[RESEARCH_QUESTION]
             prompt == Format(PROMPT_TEMPLATE, research_question)
             st1 == add_note(st, NoteInitiated(research_question))
             st2 == update_research_data(st1, "question", Str(research_question))
         IN  Returned(st2, GetPromptResult(research_question, prompt))

\* variant: the missing argument is noted before the error is raised
handle_get_prompt_notes_failure(st, name, arguments) ==
    IF name # DEEP_RESEARCH THEN Raised(st, UnknownPrompt(name))
    ELSE IF Falsy(arguments) \/ RESEARCH_QUESTION \notin DOMAIN arguments.d
    THEN Raised(add_note(st, MissingArgument), MissingArgument)
    ELSE LET research_question == arguments.d[RESEARCH_QUESTION]
             prompt == Format(PROMPT_TEMPLATE, research_question)
             st1 == update_research_data(st, "question", Str(research_question))
             st2 == add_note(st1, NoteInitiated(research_question))
         IN  Returned(st2, GetPromptResult(research_question, prompt))

\* variant: the prompt name is checked after the question has been stored
handle_get_prompt_name_last(st, name, arguments) ==
    IF Falsy(arguments) \/ RESEARCH_QUESTION \notin DOMAIN arguments.d
    THEN IF name # DEEP_RESEARCH THEN Raised(st, UnknownPrompt(name))
         ELSE Raised(st, MissingArgument)
    ELSE LET research_question == arguments.d[RESEARCH_QUESTION]
             prompt == Format(PROMPT_TEMPLATE, research_question)
             st1 == update_research_data(st, "question", Str(research_question))
             st2 == add_note(st1, NoteInitiated(research_question))
         IN  IF name # DEEP_RESEARCH THEN Raised(st2, UnknownPrompt(name))
             ELSE Returned(st2, GetPromptResult(research_question, prompt))

\* variant: an empty question is rejected after update_research_data
handle_get_prompt_rejects_empty(st, name, arguments) ==
    IF name # DEEP_RESEARCH THEN Raised(st, UnknownPrompt(name))
    ELSE IF Falsy(arguments) \/ RESEARCH_QUESTION \notin DOMAIN arguments.d
    THEN Raised(st, MissingArgument)
    ELSE LET research_question == arguments.d[RESEARCH_QUESTION]
             prompt == Format(PROMPT_TEMPLATE, research_question)
             st1 == update_research_data(st, "question", Str(research_question))
             st2 == add_note(st1, NoteInitiated(research_question))
         IN  IF research_question = <<>> THEN Raised(st1, MissingArgument)
             ELSE Returned(st2, GetPromptResult(research_question, prompt))

\* variant: arguments other than research_question are rejected
handle_get_prompt_strict(st, name, arguments) ==
    IF name # DEEP_RESEARCH THEN Raised(st, UnknownPrompt(name))
    ELSE IF Falsy(arguments) \/ RESEARCH_QUESTION \notin DOMAIN arguments.d
    THEN Raised(st, MissingArgument)
    ELSE IF DOMAIN arguments.d # {RESEARCH_QUESTION}
    THEN Raised(st, <<"Unexpected argument">>)
    ELSE LET research_question == arguments.d[RESEARCH_QUESTION]
             prompt == Format(PROMPT_TEMPLATE, research_question)
             st1 == update_research_data(st, "question", Str(research_question))
             st2 == add_note(st1, NoteInitiated(research_question))
         IN  Returned(st2, GetPromptResult(research_question, prompt))

\* variant: the question is stored under the argument's name
handle_get_prompt_wrong_key(st, name, arguments) ==
    IF name # DEEP_RESEARCH THEN Raised(st, UnknownPrompt(name))
    ELSE IF Falsy(arguments) \/ RESEARCH_QUESTION \notin DOMAIN arguments.d
    THEN Raised(st, MissingArgument)
    ELSE LET research_question == arguments.d[RESEARCH_QUESTION]
             prompt == Format(PROMPT_TEMPLATE, research_question)
             st1 == update_research_data(st, RESEARCH_QUESTION,
                                         Str(research_question))
             st2 == add_note(st1, NoteInitiated(research_question))
         IN  Returned(st2, GetPromptResult(research_question, prompt))

\* variant: the arguments are checked before the prompt name
handle_get_prompt_args_first(st, name, arguments) ==
    IF Falsy(arguments) \/ RESEARCH_QUESTION \notin DOMAIN arguments.d
    THEN Raised(st, MissingArgument)
    ELSE IF name # DEEP_RESEARCH THEN Raised(st, UnknownPrompt(name))
    ELSE LET research_question == arguments.d[RESEARCH_QUESTION]
             prompt == Format(PROMPT_TEMPLATE, research_question)
             st1 == update_research_data(st, "question", Str(research_question))
             st2 == add_note(st1, NoteInitiated(research_question))
         IN  Returned(st2, GetPromptResult(research_question, prompt))

\* variant: the check tests the value, so an empty question counts as missing
handle_get_prompt_value_check(st, name, arguments) ==
    IF name # DEEP_RESEARCH THEN Raised(st, UnknownPrompt(name))
    ELSE IF Falsy(arguments) \/ RESEARCH_QUESTION \notin DOMAIN arguments.d
    THEN Raised(st, MissingArgument)
    ELSE IF arguments.d[RESEARCH_QUESTION] = <<>>
    THEN Raised(st, MissingArgument)
    ELSE LET research_question == arguments.d[RESEARCH_QUESTION]
             prompt == Format(PROMPT_TEMPLATE, research_question)
             st1 == update_research_data(st, "question", Str(research_question))
             st2 == add_note(st1, NoteInitiated(research_question))
         IN  Returned(st2, GetPromptResult(research_question, prompt))

handle_get_prompt(st, name, arguments) ==
    IF name # DEEP_RESEARCH THEN Raised(st, UnknownPrompt(name))
    ELSE IF Falsy(arguments) \/ RESEARCH_QUESTION \notin DOMAIN arguments.d
    THEN Raised(st, MissingArgument)
    ELSE LET research_question == arguments.d[RESEARCH_QUESTION]
             prompt == Format(PROMPT_TEMPLATE, research_question)
             st1 == update_research_data(st, "question", Str(research_question))
             st2 == add_note(st1, NoteInitiated(research_question))
         IN  Returned(st2, GetPromptResult(research_question, prompt))

handle_list_tools(st) == Returned(st, <<>>)

----------------------------------------------------------------------------
(* main(): one ResearchProcessor, then server.run() over the stdio streams *)

\* variant: server.run(..., raise_exceptions=True)
raise_exceptions_on == TRUE

\* server.run() is called without raise_exceptions, so an exception of a
\* handler becomes an error response and the loop goes on
raise_exceptions == FALSE

Store == [research_data |-> research_data, notes |-> notes]

NoRequest == [method |-> "none", name |-> "", arguments |-> NoneArgs, uri |-> ""]

ListResourcesReq == [NoRequest EXCEPT !.method = "list_resources"]

ReadResourceReq(uri) == [NoRequest EXCEPT !.method = "read_resource", !.uri = uri]

ListPromptsReq == [NoRequest EXCEPT !.method = "list_prompts"]

GetPromptReq(name, arguments) ==
    [NoRequest EXCEPT !.method = "get_prompt", !.name = name,
                      !.arguments = arguments]

ListToolsReq == [NoRequest EXCEPT !.method = "list_tools"]

Dispatch(st, req) ==
    IF req.method = "list_resources" THEN handle_list_resources(st)
    ELSE IF req.method = "read_resource" THEN handle_read_resource(st, req.uri)
    ELSE IF req.method = "list_prompts" THEN handle_list_prompts(st)
    ELSE IF req.method = "get_prompt"
    THEN handle_get_prompt(st, req.name, req.arguments)
    ELSE handle_list_tools(st)

\* the response written for a request: the result, or the error made of
\* the exception's message
Response(req, out) ==
    [kind |-> IF out.raised THEN "error" ELSE "result",
     req |-> req, body |-> out.value]

\* no method of the processor has been called directly
NoCall == [op |-> "none", key |-> "", raised |-> FALSE, result |-> <<>>]

\* no dict returned by get_research_data is held outside the processor
NoRef == [live |-> FALSE, taken |-> FALSE, val |-> <<>>, seen |-> <<>>]

Init ==
    /\ research_data = InitResearchData
    /\ notes = InitNotes
    /\ resp = [kind |-> "none", req |-> NoRequest, body |-> <<>>]
    /\ stop = "none"
    /\ hist = <<>>
    /\ call = NoCall
    /\ held = NoRef

\* one turn of the request loop for a request that has been read: run its
\* handler and write the response.  hist records the questions of the
\* successful get-prompt calls.
Serve(req) ==
    LET out == Dispatch(Store, req)
        success == req.method = "get_prompt" /\ ~out.raised
    IN  /\ success => Len(hist) < MaxCalls
        /\ research_data' = out.st.research_data
        /\ notes' = out.st.notes
        /\ resp' = Response(req, out)
        /\ stop' = IF out.raised /\ raise_exceptions THEN "error" ELSE "none"
        /\ hist' = IF success
                   THEN Append(hist, req.arguments.d[RESEARCH_QUESTION])
                   ELSE hist
        /\ UNCHANGED <<call, held>>

ListResources ==
    /\ stop = "none"
    /\ Serve(ListResourcesReq)

ReadResource ==
    /\ stop = "none"
    /\ \E uri \in Uris : Serve(ReadResourceReq(uri))

ListPrompts ==
    /\ stop = "none"
    /\ Serve(ListPromptsReq)

GetPrompt ==
    /\ stop = "none"
    /\ \E name \in PromptNames, arguments \in Arguments :
          Serve(GetPromptReq(name, arguments))

ListTools ==
    /\ stop = "none"
    /\ Serve(ListToolsReq)

\* the input stream ends: server.run() returns
CloseStream ==
    /\ stop = "none"
    /\ stop' = "eof"
    /\ UNCHANGED <<research_data, notes, resp, hist, call, held>>

Next ==
    \/ ListResources
    \/ ReadResource
    \/ ListPrompts
    \/ GetPrompt
    \/ ListTools
    \/ CloseStream

Spec == Init /\ [][Next]_vars

----------------------------------------------------------------------------
(* The ResearchProcessor used directly: its four methods called with any   *)
(* key, value and note, and the dict that get_research_data hands out kept *)
(* and written to by its caller.                                           *)

MaxNotes == 3

DirectKeys == { "question", "subquestions", "bogus" }

DirectValues == { Str(<<"a">>), EmptyList }

DirectNotes == { <<"n1">>, <<"n2">> }

\* return self.research_data: the caller gets the processor's own dict
\* object, not a copy; seen is its content at the moment of the return
ReturnedDict(st) ==
    [live |-> TRUE, taken |-> TRUE, val |-> <<>>, seen |-> get_research_data(st)]

\* the content of the dict the caller holds
HeldValue == IF held.live THEN research_data ELSE held.val

CallAddNote ==
    \E note \in DirectNotes :
        LET st == add_note(Store, note)
        IN  /\ Len(notes) < MaxNotes
            /\ research_data' = st.research_data
            /\ notes' = st.notes
            /\ call' = [op |-> "add_note", key |-> "", raised |-> FALSE,
                        result |-> <<>>]
            /\ UNCHANGED <<resp, stop, hist, held>>

\* update_research_data has no raise: it returns for every key
CallUpdateResearchData ==
    \E key \in DirectKeys, value \in DirectValues :
        LET st == update_research_data(Store, key, value)
        IN  /\ Len(notes) < MaxNotes
            /\ research_data' = st.research_data
            /\ notes' = st.notes
            /\ call' = [op |-> "update_research_data", key |-> key,
                        raised |-> FALSE, result |-> <<>>]
            /\ UNCHANGED <<resp, stop, hist, held>>

CallGetResearchNotes ==
    /\ call' = [op |-> "get_research_notes", key |-> "", raised |-> FALSE,
                result |-> get_research_notes(Store)]
    /\ UNCHANGED <<research_data, notes, resp, stop, hist, held>>

CallGetResearchData ==
    /\ held' = ReturnedDict(Store)
    /\ call' = [op |-> "get_research_data", key |-> "", raised |-> FALSE,
                result |-> <<>>]
    /\ UNCHANGED <<research_data, notes, resp, stop, hist>>

\* the caller assigns to a key of the dict it was given
CallerEdit ==
    \E key \in DirectKeys, value \in DirectValues :
        /\ held.taken
        /\ IF held.live
           THEN /\ research_data' = DictSet(research_data, key, value)
                /\ held' = held
           ELSE /\ research_data' = research_data
                /\ held' = [held EXCEPT !.val = DictSet(@, key, value)]
        /\ call' = [op |-> "caller_edit", key |-> key, raised |-> FALSE,
                    result |-> <<>>]
        /\ UNCHANGED <<notes, resp, stop, hist>>

StoreNext ==
    \/ CallAddNote
    \/ CallUpdateResearchData
    \/ CallGetResearchNotes
    \/ CallGetResearchData
    \/ CallerEdit

StoreSpec == Init /\ [][StoreNext]_vars

----------------------------------------------------------------------------
(* Vocabulary of the properties *)

RECURSIVE SplitLines(_)
\* text.split("\n"): the lines of a text
SplitLines(text) ==
    IF \E i \in 1..Len(text) : text[i] = NL
    THEN LET i == CHOOSE j \in 1..Len(text) :
                    text[j] = NL /\ \A k \in 1..(j - 1) : text[k] # NL
         IN  <<SubSeq(text, 1, i - 1)>>
                 \o SplitLines(SubSeq(text, i + 1, Len(text)))
    ELSE <<text>>

\* the question of the last successful get-prompt, "" before the first
LastQuestion == IF hist = <<>> THEN <<>> ELSE hist[Len(hist)]

IsRead(uri) == resp.req.method = "read_resource" /\ resp.req.uri = uri

StoreUnchanged == research_data' = research_data /\ notes' = notes

\* the request answered by this step is a get-prompt for the known prompt
\* whose arguments are absent, empty or lack research_question
MissingArgs(req) ==
    /\ req.method = "get_prompt"
    /\ req.name = "deep-research"
    /\ \/ req.arguments.none
       \/ "research_question" \notin DOMAIN req.arguments.d

----------------------------------------------------------------------------
(* C1: every read of research://data parses as JSON whose question field  *)
(* is the question of the last successful get-prompt, and the empty       *)
(* string when there has been none.                                       *)

C1_DataShowsLastQuestion ==
    (IsRead("research://data") /\ resp.kind = "result") =>
        LET parsed == JsonLoads(resp.body)
        IN  /\ parsed.ok
            /\ "question" \in Keys(parsed.val)
            /\ DictGet(parsed.val, "question") = Str(LastQuestion)

C1_Witness ==
    /\ IsRead("research://data")
    /\ resp.kind = "result"
    /\ Len(hist) = 2
    /\ hist[1] # hist[2]
    /\ hist[2] = <<"a", NL, "b">>

----------------------------------------------------------------------------
(* C2, as stated: every read of research://notes after a successful       *)
(* get-prompt with question Q holds a line "Updated research data:        *)
(* question" and, further down, a line "Research initiated on question:   *)
(* Q".  A question with a newline in it is spread over several lines, so  *)
(* no single line holds it.                                               *)

C2_EachCallHasItsTwoLines ==
    (IsRead("research://notes") /\ resp.kind = "result") =>
        LET lines == SplitLines(resp.body)
        IN  \A i \in 1..Len(hist) :
                \E a, b \in 1..Len(lines) :
                    /\ a < b
                    /\ lines[a] = <<"Updated research data: ", "question">>
                    /\ lines[b] = <<"Research initiated on question: ">> \o hist[i]

RECURSIVE LinesBefore(_)
\* the number of lines the calls before call i have put into the notes text
LinesBefore(i) ==
    IF i = 1 THEN 0
    ELSE LinesBefore(i - 1) + 1
           + Len(SplitLines(<<"Research initiated on question: ">> \o hist[i - 1]))

(* C2, amended: in every read of research://notes the note "Updated       *)
(* research data: question" of each successful call is a whole line, and  *)
(* the call's note "Research initiated on question: Q" follows it         *)
(* directly, beginning on the next line and taking one line per line of Q.*)

C2_EachCallHasItsTwoNotes ==
    (IsRead("research://notes") /\ resp.kind = "result") =>
        LET lines == SplitLines(resp.body)
        IN  \A i \in 1..Len(hist) :
                LET a == LinesBefore(i) + 1
                    init == SplitLines(<<"Research initiated on question: ">>
                                          \o hist[i])
                IN  /\ a + Len(init) <= Len(lines)
                    /\ lines[a] = <<"Updated research data: ", "question">>
                    /\ SubSeq(lines, a + 1, a + Len(init)) = init

C2_Witness ==
    /\ IsRead("research://notes")
    /\ resp.kind = "result"
    /\ Len(hist) = 2
    /\ hist[1] = <<"a", NL, "b">>
    /\ hist[2] = <<QT, "a">>

----------------------------------------------------------------------------
(* C3: a get-prompt for "deep-research" whose arguments are absent, empty *)
(* or lack research_question is answered with the missing-argument error  *)
(* and leaves the six data fields and the notes as they were.             *)

C3_MissingArgumentLeavesStore ==
    [][ MissingArgs(resp'.req) =>
            /\ resp'.kind = "error"
            /\ resp'.body = <<"Missing required argument: research_question">>
            /\ StoreUnchanged ]_vars

C3_Witness ==
    /\ MissingArgs(resp.req)
    /\ ~resp.req.arguments.none
    /\ DOMAIN resp.req.arguments.d = {"extra"}
    /\ resp.kind = "error"
    /\ Len(hist) = 1
    /\ DictGet(research_data, "question") = Str(<<"a">>)

----------------------------------------------------------------------------
(* C4: a get-prompt whose id is not "deep-research" is answered with the  *)
(* unknown-prompt error whatever its arguments, appends no note and       *)
(* changes no data field.                                                 *)

C4_UnknownPromptLeavesStore ==
    [][ (resp'.req.method = "get_prompt" /\ resp'.req.name # "deep-research") =>
            /\ resp'.kind = "error"
            /\ resp'.body = <<"Unknown prompt: ", resp'.req.name>>
            /\ StoreUnchanged ]_vars

C4_Witness ==
    /\ resp.req.method = "get_prompt"
    /\ resp.req.name = "not-a-prompt"
    /\ ~resp.req.arguments.none
    /\ "research_question" \in DOMAIN resp.req.arguments.d
    /\ resp.kind = "error"
    /\ Len(hist) = 1

----------------------------------------------------------------------------
(* C5: after successful get-prompt calls with questions A then B, the     *)
(* question field is B, and the notes hold "Research initiated on         *)
(* question: A" at an earlier position than "Research initiated on        *)
(* question: B".                                                          *)

C5_LastWinsNotesKeepOrder ==
    /\ hist # <<>> => DictGet(research_data, "question") = Str(LastQuestion)
    /\ \A i, j \in 1..Len(hist) :
          i < j =>
            \E p, q \in 1..Len(notes) :
                /\ p < q
                /\ notes[p] = <<"Research initiated on question: ">> \o hist[i]
                /\ notes[q] = <<"Research initiated on question: ">> \o hist[j]

C5_Witness ==
    /\ Len(hist) = 2
    /\ hist[1] = <<"a">>
    /\ hist[2] = <<BS, "n">>
    /\ resp.kind = "error"

----------------------------------------------------------------------------
(* C6: every step either leaves the store as it was or applies the three  *)
(* effects of one successful get-prompt together: question set to Q, then *)
(* the notes "Updated research data: question" and "Research initiated on *)
(* question: Q" appended; a request answered with an error changes        *)
(* nothing.                                                               *)

C6_AllOrNothing ==
    [][ \/ StoreUnchanged
        \/ /\ resp'.kind = "result"
           /\ resp'.req.method = "get_prompt"
           /\ LET Q == resp'.req.arguments.d["research_question"]
              IN  /\ research_data' = DictSet(research_data, "question", Str(Q))
                  /\ notes' = notes \o
                        << <<"Updated research data: ", "question">>,
                           <<"Research initiated on question: ">> \o Q >> ]_vars

C6_Witness ==
    /\ resp.kind = "result"
    /\ resp.req.method = "get_prompt"
    /\ Len(hist) = 2
    /\ Len(notes) = 4
    /\ hist[2] = <<>>

----------------------------------------------------------------------------
(* C7: list-resources, read-resource for any uri, list-prompts and        *)
(* list-tools leave the six data fields and the notes unchanged.          *)

C7_OnlyGetPromptWrites ==
    [][ resp'.req.method \in
            {"list_resources", "read_resource", "list_prompts", "list_tools"}
        => StoreUnchanged ]_vars

C7_Witness ==
    /\ resp.req.method = "read_resource"
    /\ resp.req.uri = "research://other"
    /\ Len(notes) = 4

----------------------------------------------------------------------------
(* C8: read-resource returns a result exactly for research://notes and    *)
(* research://data, in every store state; for any other uri it is         *)
(* answered with the unknown-resource error.                              *)

C8_ReadSucceedsForTheTwoUris ==
    resp.req.method = "read_resource" =>
        /\ resp.kind = "result"
              <=> resp.req.uri \in {"research://notes", "research://data"}
        /\ resp.kind # "result" =>
              /\ resp.kind = "error"
              /\ resp.body = <<"Unknown resource: ", resp.req.uri>>

C8_Witness ==
    /\ resp.req.method = "read_resource"
    /\ resp.req.uri = "research://notes/"
    /\ resp.kind = "error"
    /\ Len(hist) = 1

----------------------------------------------------------------------------
(* C9: in every state list-resources returns the two descriptors          *)
(* research://notes then research://data, list-prompts returns the one    *)
(* descriptor deep-research requiring research_question, and list-tools   *)
(* returns the empty sequence.                                            *)

C9_ListingsAreFixed ==
    /\ resp.req.method = "list_resources" =>
          /\ resp.kind = "result"
          /\ Len(resp.body) = 2
          /\ resp.body[1].uri = "research://notes"
          /\ resp.body[1].mimeType = "text/plain"
          /\ resp.body[2].uri = "research://data"
          /\ resp.body[2].mimeType = "application/json"
    /\ resp.req.method = "list_prompts" =>
          /\ resp.kind = "result"
          /\ Len(resp.body) = 1
          /\ resp.body[1].name = "deep-research"
          /\ Len(resp.body[1].arguments) = 1
          /\ resp.body[1].arguments[1].name = "research_question"
          /\ resp.body[1].arguments[1].required
    /\ resp.req.method = "list_tools" =>
          /\ resp.kind = "result"
          /\ resp.body = <<>>

C9_Witness ==
    /\ resp.req.method = "list_resources"
    /\ Len(hist) = 2

----------------------------------------------------------------------------
(* C10: a request answered with an error does not end the request loop:   *)
(* while the input stream is open every kind of request is accepted, and  *)
(* the only step that ends the loop is the closing of the input stream.   *)

C10_ErrorsDoNotEndTheLoop ==
    /\ [](stop = "none" =>
            /\ ENABLED ListResources
            /\ ENABLED ReadResource
            /\ ENABLED ListPrompts
            /\ ENABLED GetPrompt
            /\ ENABLED ListTools)
    /\ [][ stop' # "none" =>
            /\ stop' = "eof"
            /\ UNCHANGED <<research_data, notes, resp, hist>> ]_vars

C10_Witness ==
    /\ resp.kind = "error"
    /\ resp.req.method = "get_prompt"
    /\ stop = "none"
    /\ ENABLED ReadResource

----------------------------------------------------------------------------
(* C12: from any store state, get-prompt("deep-research", args) for two   *)
(* argument dicts that agree on research_question and differ in their     *)
(* other keys both return, return the same message, and leave the same    *)
(* store.                                                                 *)

C12_ExtraArgumentsIgnored ==
    \A a1, a2 \in Arguments :
        ( /\ ~a1.none /\ ~a2.none
          /\ "research_question" \in DOMAIN a1.d
          /\ "research_question" \in DOMAIN a2.d
          /\ a1.d["research_question"] = a2.d["research_question"] ) =>
            LET o1 == handle_get_prompt(Store, "deep-research", a1)
                o2 == handle_get_prompt(Store, "deep-research", a2)
            IN  /\ ~o1.raised
                /\ ~o2.raised
                /\ o1.value = o2.value
                /\ o1.st = o2.st

C12_Witness ==
    /\ resp.req.method = "get_prompt"
    /\ resp.kind = "result"
    /\ DOMAIN resp.req.arguments.d = {"research_question", "extra"}
    /\ Len(hist) = 1

----------------------------------------------------------------------------
(* C13: the notes are append-only: the notes before any step are a prefix *)
(* of the notes after it, and so are they of the notes that add_note and  *)
(* update_research_data leave when applied to any store reached.          *)

IsPrefix(s, t) == Len(s) <= Len(t) /\ SubSeq(t, 1, Len(s)) = s

C13_NotesAppendOnly ==
    /\ [][ IsPrefix(notes, notes') ]_vars
    /\ [](\A q \in Questions :
            /\ IsPrefix(notes, add_note(Store, q).notes)
            /\ \A key \in {"question", "final_report", "bogus"} :
                  IsPrefix(notes, update_research_data(Store, key, Str(q)).notes))

C13_Witness ==
    /\ Len(notes) = 4
    /\ notes[2] # notes[4]
    /\ resp.req.method = "read_resource"

----------------------------------------------------------------------------
(* C14: through any sequence of requests the data record keeps exactly    *)
(* its six keys, in their order, and every field but question keeps its   *)
(* empty default.                                                         *)

C14_OnlyQuestionChanges ==
    /\ [i \in 1..Len(research_data) |-> research_data[i].k]
          = <<"question", "elaboration", "subquestions", "search_results",
              "extracted_content", "final_report">>
    /\ research_data[1].v.t = "str"
    /\ research_data[2].v = [t |-> "str", v |-> <<>>]
    /\ research_data[3].v = [t |-> "list", v |-> <<>>]
    /\ research_data[4].v = [t |-> "dict", v |-> <<>>]
    /\ research_data[5].v = [t |-> "dict", v |-> <<>>]
    /\ research_data[6].v = [t |-> "str", v |-> <<>>]

C14_Witness ==
    /\ Len(hist) = 2
    /\ research_data[1].v = [t |-> "str", v |-> <<"a", NL, "b">>]
    /\ resp.kind = "error"

----------------------------------------------------------------------------
(* C15: update_research_data called with a key that is not one of the six *)
(* field names raises and leaves the store as it was: no key added, no    *)
(* note appended.  The code assigns to any key and notes it.              *)

C15_UnknownKeyRejected ==
    [][ ( /\ call'.op = "update_research_data"
          /\ call'.key \notin {"question", "elaboration", "subquestions",
                               "search_results", "extracted_content",
                               "final_report"} ) =>
            /\ call'.raised
            /\ StoreUnchanged ]_vars

----------------------------------------------------------------------------
(* C16: the value get_research_data returned stays what it was when the   *)
(* store is changed afterwards, and writing to it does not change the     *)
(* store.  The code returns the processor's own dict.                     *)

C16_SnapshotIsACopy ==
    /\ [](held.taken => HeldValue = held.seen)
    /\ [][ call'.op = "caller_edit" => StoreUnchanged ]_vars

----------------------------------------------------------------------------
(* C17: between requests the notes are exactly, in call order, one pair   *)
(* "Updated research data: question", "Research initiated on question:    *)
(* Q_i" per successful get-prompt call i, and nothing else.               *)

RECURSIVE NotePairs(_)
NotePairs(qs) ==
    IF Len(qs) = 0 THEN <<>>
    ELSE << <<"Updated research data: ", "question">>,
            <<"Research initiated on question: ">> \o Head(qs) >>
           \o NotePairs(Tail(qs))

C17_NotesArePairsPerCall ==
    /\ notes = NotePairs(hist)
    /\ Len(notes) = 2 * Len(hist)

C17_Witness ==
    /\ Len(hist) = 2
    /\ hist[1] = hist[2]
    /\ resp.kind = "error"
    /\ resp.req.method = "get_prompt"

----------------------------------------------------------------------------
(* C18: the prompt id is checked before the arguments: a get-prompt with  *)
(* an unknown id and no research_question is answered with the            *)
(* unknown-prompt error, and the missing-argument error is given only for *)
(* the id "deep-research".                                                *)

C18_NameCheckedFirst ==
    resp.req.method = "get_prompt" =>
        /\ ( /\ resp.req.name # "deep-research"
             /\ \/ resp.req.arguments.none
                \/ "research_question" \notin DOMAIN resp.req.arguments.d ) =>
               /\ resp.kind = "error"
               /\ resp.body = <<"Unknown prompt: ", resp.req.name>>
        /\ ( /\ resp.kind = "error"
             /\ resp.body = <<"Missing required argument: research_question">> ) =>
               resp.req.name = "deep-research"

C18_Witness ==
    /\ resp.req.method = "get_prompt"
    /\ resp.req.name = "Deep-Research"
    /\ ~resp.req.arguments.none
    /\ DOMAIN resp.req.arguments.d = {}
    /\ resp.kind = "error"

----------------------------------------------------------------------------
(* C19: get-prompt("deep-research", {research_question: ""}) returns,     *)
(* sets question to the empty string and appends the two notes, the       *)
(* second being "Research initiated on question: ".                       *)

EmptyQuestionAsked(r) ==
    /\ r.req.method = "get_prompt"
    /\ r.req.name = "deep-research"
    /\ ~r.req.arguments.none
    /\ "research_question" \in DOMAIN r.req.arguments.d
    /\ r.req.arguments.d["research_question"] = <<>>

C19_EmptyQuestionAccepted ==
    [][ (EmptyQuestionAsked(resp') /\ stop' = "none") =>
            /\ resp'.kind = "result"
            /\ research_data'[1] = [k |-> "question", v |-> [t |-> "str", v |-> <<>>]]
            /\ notes' = notes \o << <<"Updated research data: ", "question">>,
                                    <<"Research initiated on question: ">> >> ]_vars

C19_Witness ==
    /\ EmptyQuestionAsked(resp)
    /\ resp.kind = "result"
    /\ research_data = InitResearchData
    /\ Len(notes) = 2

====
